---------------------------- MODULE Spec2Model ----------------------------
(***************************************************************************)
(* Talking T (mr_t_talker.py): the scheduler, the speech engine and the    *)
(* avatar animation of MrTTalker, as a state machine.                      *)
(*                                                                         *)
(* Control context: the Tk main loop.  Every handler (_scheduler_tick,     *)
(* speak_now, _on_mode_change, _animate_mouth, _stop_animation,            *)
(* _hide_avatar) runs to completion there and is one action.  Worker       *)
(* context: the daemon thread started by speak_now, one action per         *)
(* blocking step of SpeechEngine.speak and one for the finally clause.     *)
(* Tk timers (root.after) are pending callbacks that may fire at any       *)
(* later point.                                                            *)
(*                                                                         *)
(* Wall-clock instants are integers: milliseconds since midnight of day 0  *)
(* (datetime arithmetic with the sub-second field in milliseconds).        *)
(***************************************************************************)
EXTENDS Integers, FiniteSets, Sequences, TLC

\* ------------------------------------------------------------ bounds
\* worker threads that can exist at once in the model
MaxWorkers == 2
\* Tk timer ids available to root.after(MOUTH_FLIP_MS, _animate_mouth)
MaxTimers == 2
\* pending root.after(END_POSE_HOLD_MS, _hide_avatar) callbacks
MaxHideTimers == 1
\* frame_index is not advanced past this value
MaxFrameIndex == 4
\* phrases of the catalog that are distinguished
NumPhrases == 2
\* longest time (ms) that passes inside one handler between two clock reads
MaxDispatchDelay == 500

\* ------------------------------------------------------------ datetime
MsPerSecond == 1000
SecondsPerMinute == 60
MinutesPerHour == 60
HoursPerDay == 24
TenMinutes == 10

MsPerMinute == MsPerSecond * SecondsPerMinute
MsPerHour == MsPerMinute * MinutesPerHour
MsPerDay == MsPerHour * HoursPerDay

\* dt.datetime(day, h, m, s, ms) as an instant
At(d, h, m, s, ms) == d * MsPerDay + h * MsPerHour + m * MsPerMinute + s * MsPerSecond + ms

\* the fields of an instant
MilliOf(t) == t % MsPerSecond
SecondOf(t) == (t \div MsPerSecond) % SecondsPerMinute
MinuteOf(t) == (t \div MsPerMinute) % MinutesPerHour

\* now.replace(second=0, microsecond=0)
TruncToMinute(t) == t - SecondOf(t) * MsPerSecond - MilliOf(t)

\* t.replace(minute=m)
ReplaceMinute(t, m) == t - MinuteOf(t) * MsPerMinute + m * MsPerMinute

\* ------------------------------------------------------------ scheduler
\* the values of MODES
ModeKeys == {"minute", "ten_minutes", "hourly"}

\* mode "minute": base + timedelta(minutes=1)
NextMinute(now) == TruncToMinute(now) + MsPerMinute

NextHour_KeepMinute(now) == TruncToMinute(now) + MsPerHour

\* mode "hourly": (base + timedelta(hours=1)).replace(minute=0)
NextHour(now) == ReplaceMinute(TruncToMinute(now) + MsPerHour, 0)

NextTenMinutes_Strict(now) ==
    LET base == TruncToMinute(now)
        candidate == ReplaceMinute(base, (MinuteOf(base) \div TenMinutes) * TenMinutes)
    IN  IF candidate < now THEN candidate + TenMinutes * MsPerMinute ELSE candidate

NextTenMinutes_NoBucket(now) ==
    LET base == TruncToMinute(now)
    IN  IF base <= now THEN base + TenMinutes * MsPerMinute ELSE base

\* mode "ten_minutes": the bucket of the current minute, pushed one bucket on
\* when it is not after now
NextTenMinutes(now) ==
    LET base == TruncToMinute(now)
        minute_bucket == (MinuteOf(base) \div TenMinutes) * TenMinutes
        candidate == ReplaceMinute(base, minute_bucket)
    IN  IF candidate <= now THEN candidate + TenMinutes * MsPerMinute ELSE candidate

\* MrTTalker._compute_next_fire, for the mode key of the selected mode
ComputeNextFire(mode_key, now) ==
    IF mode_key = "minute" THEN NextMinute(now)
    ELSE IF mode_key = "hourly" THEN NextHour(now)
    ELSE NextTenMinutes(now)


\* ------------------------------------------------------------ state
VARIABLES
    clock,          \* dt.datetime.now()
    selected_mode,  \* MODES[self.selected_mode.get()]
    next_fire,      \* self.next_fire
    is_speaking,    \* self.is_speaking
    animation_job,  \* self.animation_job: a timer id, or NoJob
    frame_index,    \* self.frame_index
    avatar_shown,   \* self.avatar is deiconified (TRUE) or withdrawn (FALSE)
    face,           \* the image of self.face_label
    talk_frames,    \* len(self.talk_frames)
    end_img,        \* self.end_img is not None
    piper_bin,      \* self.engine.piper_bin is set
    piper_model,    \* self.engine.piper_model is not empty
    animTimers,     \* ids of the pending root.after(MOUTH_FLIP_MS, _animate_mouth)
    hideTimers,     \* number of pending root.after(END_POSE_HOLD_MS, _hide_avatar)
    stopQueue,      \* number of pending root.after(0, _stop_animation)
    workers,        \* the threads started by speak_now
    lastOp,         \* the handler or step that ran last
    deferred        \* "waiting": a tick found the schedule due while speaking and no
                    \* tick has dispatched since; "dispatched": the last dispatch of a
                    \* tick ended such a wait; "none" otherwise

vars == <<clock, selected_mode, next_fire, is_speaking, animation_job, frame_index,
          avatar_shown, face, talk_frames, end_img, piper_bin, piper_model,
          animTimers, hideTimers, stopQueue, workers, lastOp, deferred>>

\* self.animation_job = None
NoJob == 0

\* indices into PHRASES
Phrases == 1..NumPhrases

\* 1 + len(EXTRA_FRAME_GLOBS): open_img and the extra frames that exist
MaxTalkFrames == 3

\* the images face_label can show
ClosedImg == [kind |-> "closed", idx |-> 0]
EndImg == [kind |-> "end", idx |-> 0]
TalkImg(i) == [kind |-> "talk", idx |-> i]

\* no thread
IdleWorker == [pc |-> "idle", phrase |-> 0, wav |-> FALSE, rc |-> -1,
               said |-> 0, played |-> FALSE, outcome |-> "none"]

\* the thread speak_now starts: _run is about to call self.engine.speak(phrase)
NewWorker(phrase) == [IdleWorker EXCEPT !.pc = "speak", !.phrase = phrase]

\* a thread that has ended; how its speak call ended is kept
EndedWorker(rec) == [IdleWorker EXCEPT !.outcome = rec.outcome]

WorkerIds == 1..MaxWorkers

\* the instants at which the clock is read
ClockSamples ==
    { At(0, 10, 59, 59, 500), At(0, 11, 0, 0, 0), At(0, 11, 0, 0, 500),
      At(0, 11, 1, 0, 0) }

\* the state after MrTTalker.__init__, but for the files and programs found
InitControl ==
    /\ selected_mode = "ten_minutes"
    /\ next_fire = ComputeNextFire("ten_minutes", clock)
    /\ is_speaking = FALSE
    /\ animation_job = NoJob
    /\ frame_index = 0
    /\ avatar_shown = FALSE
    /\ face = ClosedImg
    /\ animTimers = {}
    /\ hideTimers = 0
    /\ stopQueue = 0
    /\ workers = [w \in WorkerIds |-> IdleWorker]
    /\ lastOp = "init"
    /\ deferred = "none"

\* what __init__ found: the images (setup.py ships the open mouth, both extra
\* frames and the end pose), piper on the PATH or not, PIPER_MODEL_PATH set or not
InitConfig ==
    /\ talk_frames = MaxTalkFrames
    /\ end_img = TRUE
    /\ piper_bin \in BOOLEAN
    /\ piper_model \in BOOLEAN

Init == clock = At(0, 10, 59, 59, 500) /\ InitConfig /\ InitControl

\* ------------------------------------------------------------ control context
\* the id root.after returns: one no pending timer has
FreshTimer(pending) == CHOOSE i \in 1..MaxTimers : i \notin pending /\ \A j \in 1..MaxTimers : j \notin pending => i <= j

\* time passes
Advance ==
    /\ \E t \in ClockSamples : t > clock /\ clock' = t
    /\ lastOp' = "clock"
    /\ UNCHANGED <<selected_mode, next_fire, is_speaking, animation_job, frame_index,
                   avatar_shown, face, talk_frames, end_img, piper_bin, piper_model,
                   animTimers, hideTimers, stopQueue, workers, deferred>>

OnModeChange_KeepWhileSpeaking ==
    /\ \E m \in ModeKeys :
          /\ selected_mode' = m
          /\ next_fire' = IF is_speaking THEN next_fire ELSE ComputeNextFire(m, clock)
    /\ lastOp' = "mode_change"
    /\ UNCHANGED <<clock, is_speaking, animation_job, frame_index,
                   avatar_shown, face, talk_frames, end_img, piper_bin, piper_model,
                   animTimers, hideTimers, stopQueue, workers, deferred>>

OnModeChange_KeepDue ==
    /\ \E m \in ModeKeys :
          /\ selected_mode' = m
          /\ next_fire' = IF clock >= next_fire THEN next_fire ELSE ComputeNextFire(m, clock)
    /\ lastOp' = "mode_change"
    /\ UNCHANGED <<clock, is_speaking, animation_job, frame_index,
                   avatar_shown, face, talk_frames, end_img, piper_bin, piper_model,
                   animTimers, hideTimers, stopQueue, workers, deferred>>

\* _reset_schedule, called by _on_mode_change after the radiobutton set the mode
OnModeChange ==
    /\ \E m \in ModeKeys :
          /\ selected_mode' = m
          /\ next_fire' = ComputeNextFire(m, clock)
    /\ lastOp' = "mode_change"
    /\ UNCHANGED <<clock, is_speaking, animation_job, frame_index,
                   avatar_shown, face, talk_frames, end_img, piper_bin, piper_model,
                   animTimers, hideTimers, stopQueue, workers, deferred>>

AlreadySpeaking_Never == FALSE

AlreadySpeaking_WhileHidden == is_speaking /\ ~avatar_shown

\* speak_now's early return: if self.is_speaking
AlreadySpeaking == is_speaking

Dispatch_NoFrameReset ==
    /\ Cardinality(animTimers) < MaxTimers
    /\ \E w \in WorkerIds : workers[w].pc = "idle"
    /\ frame_index < MaxFrameIndex
    /\ is_speaking' = TRUE
    /\ avatar_shown' = TRUE
    /\ face' = TalkImg(frame_index % talk_frames)
    /\ frame_index' = frame_index + 1
    /\ animation_job' = FreshTimer(animTimers)
    /\ animTimers' = animTimers \cup {FreshTimer(animTimers)}
    /\ \E phrase \in Phrases :
          LET w == CHOOSE i \in WorkerIds : workers[i].pc = "idle"
                        /\ \A j \in WorkerIds : workers[j].pc = "idle" => i <= j
          IN  workers' = [workers EXCEPT ![w] = NewWorker(phrase)]

\* _start_animation, with its call of _animate_mouth (is_speaking is True there),
\* then the thread start of speak_now
Dispatch ==
    /\ Cardinality(animTimers) < MaxTimers
    /\ \E w \in WorkerIds : workers[w].pc = "idle"
    /\ is_speaking' = TRUE
    /\ avatar_shown' = TRUE
    /\ face' = TalkImg(0 % talk_frames)
    /\ frame_index' = 1
    /\ animation_job' = FreshTimer(animTimers)
    /\ animTimers' = animTimers \cup {FreshTimer(animTimers)}
    /\ \E phrase \in Phrases :
          LET w == CHOOSE i \in WorkerIds : workers[i].pc = "idle"
                        /\ \A j \in WorkerIds : workers[j].pc = "idle" => i <= j
          IN  workers' = [workers EXCEPT ![w] = NewWorker(phrase)]

\* speak_now from the menu
SpeakNow ==
    /\ IF AlreadySpeaking
          THEN /\ lastOp' = "speak_now_skipped"
               /\ UNCHANGED <<is_speaking, avatar_shown, face, frame_index,
                              animation_job, animTimers, workers>>
          ELSE /\ Dispatch
               /\ lastOp' = "speak_now"
    /\ UNCHANGED <<clock, selected_mode, next_fire, talk_frames, end_img, piper_bin,
                   piper_model, hideTimers, stopQueue, deferred>>

TickDue_IgnoreSpeaking == clock >= next_fire

\* the condition of _scheduler_tick (next_fire is never None after __init__)
TickDue == clock >= next_fire /\ ~is_speaking

SchedulerTick_RearmFromScheduled ==
    /\ IF TickDue
          THEN /\ IF AlreadySpeaking
                     THEN /\ UNCHANGED <<is_speaking, avatar_shown, face, frame_index,
                                         animation_job, animTimers, workers>>
                          /\ deferred' = deferred
                     ELSE /\ Dispatch
                          /\ deferred' = IF deferred = "waiting" THEN "dispatched" ELSE "none"
               /\ \E t \in ClockSamples :
                     /\ t >= clock
                     /\ t - clock <= MaxDispatchDelay
                     /\ clock' = t
                     /\ next_fire' = ComputeNextFire(selected_mode, next_fire)
               /\ lastOp' = "tick_fire"
          ELSE /\ lastOp' = "tick_skip"
               /\ deferred' = IF clock >= next_fire /\ is_speaking THEN "waiting" ELSE deferred
               /\ UNCHANGED <<clock, next_fire, is_speaking, avatar_shown, face,
                              frame_index, animation_job, animTimers, workers>>
    /\ UNCHANGED <<selected_mode, talk_frames, end_img, piper_bin, piper_model,
                   hideTimers, stopQueue>>

\* _scheduler_tick; the timer root.after(500, _scheduler_tick) is always pending
SchedulerTick ==
    /\ IF TickDue
          THEN /\ IF AlreadySpeaking
                     THEN /\ UNCHANGED <<is_speaking, avatar_shown, face, frame_index,
                                         animation_job, animTimers, workers>>
                          /\ deferred' = deferred
                     ELSE /\ Dispatch
                          /\ deferred' = IF deferred = "waiting" THEN "dispatched" ELSE "none"
               /\ \E t \in ClockSamples :
                     /\ t >= clock
                     /\ t - clock <= MaxDispatchDelay
                     /\ clock' = t
                     /\ next_fire' = ComputeNextFire(selected_mode, t)
               /\ lastOp' = "tick_fire"
          ELSE /\ lastOp' = "tick_skip"
               /\ deferred' = IF clock >= next_fire /\ is_speaking THEN "waiting" ELSE deferred
               /\ UNCHANGED <<clock, next_fire, is_speaking, avatar_shown, face,
                              frame_index, animation_job, animTimers, workers>>
    /\ UNCHANGED <<selected_mode, talk_frames, end_img, piper_bin, piper_model,
                   hideTimers, stopQueue>>

\* _animate_mouth, run by the timer id
AnimateMouth ==
    /\ \E id \in animTimers :
          LET pending == animTimers \ {id}
          IN  IF ~is_speaking
                 THEN /\ face' = ClosedImg
                      /\ animTimers' = pending
                      /\ UNCHANGED <<frame_index, animation_job>>
                 ELSE /\ frame_index < MaxFrameIndex
                      /\ face' = TalkImg(frame_index % talk_frames)
                      /\ frame_index' = frame_index + 1
                      /\ animation_job' = FreshTimer(pending)
                      /\ animTimers' = pending \cup {FreshTimer(pending)}
    /\ lastOp' = "animate"
    /\ UNCHANGED <<clock, selected_mode, next_fire, is_speaking, avatar_shown,
                   talk_frames, end_img, piper_bin, piper_model, hideTimers,
                   stopQueue, workers, deferred>>

StopAnimation_NoCancel ==
    /\ stopQueue > 0
    /\ stopQueue' = stopQueue - 1
    /\ is_speaking' = FALSE
    /\ UNCHANGED <<animTimers, animation_job>>
    /\ \E draw \in BOOLEAN :
          IF end_img /\ draw
             THEN /\ hideTimers < MaxHideTimers
                  /\ face' = EndImg
                  /\ hideTimers' = hideTimers + 1
                  /\ UNCHANGED avatar_shown
             ELSE /\ face' = ClosedImg
                  /\ avatar_shown' = FALSE
                  /\ UNCHANGED hideTimers
    /\ lastOp' = "stop_animation"
    /\ UNCHANGED <<clock, selected_mode, next_fire, frame_index, talk_frames, end_img,
                   piper_bin, piper_model, workers, deferred>>

StopAnimation_NoHideTimer ==
    /\ stopQueue > 0
    /\ stopQueue' = stopQueue - 1
    /\ is_speaking' = FALSE
    /\ animTimers' = animTimers \ {animation_job}
    /\ animation_job' = NoJob
    /\ \E draw \in BOOLEAN :
          IF end_img /\ draw
             THEN /\ face' = EndImg
                  /\ UNCHANGED <<avatar_shown, hideTimers>>
             ELSE /\ face' = ClosedImg
                  /\ avatar_shown' = FALSE
                  /\ UNCHANGED hideTimers
    /\ lastOp' = "stop_animation"
    /\ UNCHANGED <<clock, selected_mode, next_fire, frame_index, talk_frames, end_img,
                   piper_bin, piper_model, workers, deferred>>

\* _stop_animation, run by root.after(0, ...); draw is random.random() < END_POSE_PROBABILITY
StopAnimation ==
    /\ stopQueue > 0
    /\ stopQueue' = stopQueue - 1
    /\ is_speaking' = FALSE
    /\ animTimers' = animTimers \ {animation_job}
    /\ animation_job' = NoJob
    /\ \E draw \in BOOLEAN :
          IF end_img /\ draw
             THEN /\ hideTimers < MaxHideTimers
                  /\ face' = EndImg
                  /\ hideTimers' = hideTimers + 1
                  /\ UNCHANGED avatar_shown
             ELSE /\ face' = ClosedImg
                  /\ avatar_shown' = FALSE
                  /\ UNCHANGED hideTimers
    /\ lastOp' = "stop_animation"
    /\ UNCHANGED <<clock, selected_mode, next_fire, frame_index, talk_frames, end_img,
                   piper_bin, piper_model, workers, deferred>>

HideAvatar_EndsSpeaking ==
    /\ hideTimers > 0
    /\ hideTimers' = hideTimers - 1
    /\ avatar_shown' = FALSE
    /\ is_speaking' = FALSE
    /\ lastOp' = "hide_avatar"
    /\ UNCHANGED <<clock, selected_mode, next_fire, animation_job,
                   frame_index, face, talk_frames, end_img, piper_bin, piper_model,
                   animTimers, stopQueue, workers, deferred>>

\* _hide_avatar, run by root.after(END_POSE_HOLD_MS, ...)
HideAvatar ==
    /\ hideTimers > 0
    /\ hideTimers' = hideTimers - 1
    /\ avatar_shown' = FALSE
    /\ lastOp' = "hide_avatar"
    /\ UNCHANGED <<clock, selected_mode, next_fire, is_speaking, animation_job,
                   frame_index, face, talk_frames, end_img, piper_bin, piper_model,
                   animTimers, stopQueue, workers, deferred>>

\* ------------------------------------------------------------ worker context
\* SpeechEngine._piper_ready; model_exists is Path(self.piper_model).exists()
PiperReady(model_exists) == piper_bin /\ piper_model /\ model_exists

\* exit codes of the piper process that are distinguished
ReturnCodes == {0, 1}

\* _speak_piper after proc.communicate: a non-zero returncode goes to _speak_say
AfterSynthesis(returncode) == IF returncode # 0 THEN "say" ELSE "afplay"

WavAfterRemove_OnReturnOnly(rec) == rec.wav /\ rec.outcome = "raised"

\* the finally clause of _speak_piper: os.remove(wav_path) on every exit path
WavAfterRemove(rec) == FALSE

PostsCompletion_OnReturnOnly(rec) == rec.outcome = "returned"

\* the finally clause of _run: root.after(0, self._stop_animation) on every exit
PostsCompletion(rec) == TRUE

\* what a step of a worker leaves alone
WorkerFrame ==
    /\ lastOp' = "worker"
    /\ UNCHANGED <<clock, selected_mode, next_fire, is_speaking, animation_job,
                   frame_index, avatar_shown, face, talk_frames, end_img, piper_bin,
                   piper_model, animTimers, hideTimers, deferred>>

\* SpeechEngine.speak: the backend is chosen by _piper_ready on every call
WorkerSpeak ==
    /\ \E w \in WorkerIds, model_exists \in BOOLEAN :
          /\ workers[w].pc = "speak"
          /\ workers' = [workers EXCEPT ![w].pc =
                            IF PiperReady(model_exists) THEN "mktemp" ELSE "say"]
    /\ UNCHANGED stopQueue
    /\ WorkerFrame

\* _speak_piper: tempfile.NamedTemporaryFile(suffix=".wav", delete=False), before
\* the try; it creates the file or raises
WorkerMktemp ==
    /\ \E w \in WorkerIds, created \in BOOLEAN :
          /\ workers[w].pc = "mktemp"
          /\ workers' = [workers EXCEPT ![w] =
                IF created
                   THEN [@ EXCEPT !.pc = "piper", !.wav = TRUE]
                   ELSE [@ EXCEPT !.pc = "finally", !.outcome = "raised"]]
    /\ UNCHANGED stopQueue
    /\ WorkerFrame

\* _speak_piper: subprocess.Popen(cmd) and proc.communicate(phrase); the launch
\* raises OSError, or the process exits with a return code
WorkerPiper ==
    /\ \E w \in WorkerIds :
          /\ workers[w].pc = "piper"
          /\ \/ workers' = [workers EXCEPT ![w] =
                    [@ EXCEPT !.pc = "remove", !.outcome = "raised"]]
             \/ \E returncode \in ReturnCodes :
                   workers' = [workers EXCEPT ![w] =
                       [@ EXCEPT !.pc = AfterSynthesis(returncode), !.rc = returncode]]
    /\ UNCHANGED stopQueue
    /\ WorkerFrame

\* _speak_piper: subprocess.run(["afplay", wav_path], check=False); the launch
\* raises OSError, or the call returns whatever afplay's exit status
WorkerAfplay ==
    /\ \E w \in WorkerIds, launched \in BOOLEAN :
          /\ workers[w].pc = "afplay"
          /\ workers' = [workers EXCEPT ![w] =
                [@ EXCEPT !.pc = "remove", !.played = TRUE,
                          !.outcome = IF launched THEN "returned" ELSE "raised"]]
    /\ UNCHANGED stopQueue
    /\ WorkerFrame

\* _speak_say(phrase): subprocess.Popen of /usr/bin/say raises OSError, or the
\* process is waited for and its exit status is not read; called by speak (no
\* temporary file) or by _speak_piper (inside its try)
WorkerSay ==
    /\ \E w \in WorkerIds, launched \in BOOLEAN :
          /\ workers[w].pc = "say"
          /\ workers' = [workers EXCEPT ![w] =
                [@ EXCEPT !.pc = IF workers[w].wav THEN "remove" ELSE "finally",
                          !.said = workers[w].phrase,
                          !.outcome = IF launched THEN "returned" ELSE "raised"]]
    /\ UNCHANGED stopQueue
    /\ WorkerFrame

\* _speak_piper: the finally clause; OSError of os.remove is swallowed
WorkerRemove ==
    /\ \E w \in WorkerIds :
          /\ workers[w].pc = "remove"
          /\ workers' = [workers EXCEPT ![w] =
                [@ EXCEPT !.pc = "finally", !.wav = WavAfterRemove(workers[w])]]
    /\ UNCHANGED stopQueue
    /\ WorkerFrame

WorkerFinally_StopsItself ==
    /\ \E w \in WorkerIds :
          /\ workers[w].pc = "finally"
          /\ workers' = [workers EXCEPT ![w] = EndedWorker(workers[w])]
    /\ is_speaking' = FALSE
    /\ animTimers' = animTimers \ {animation_job}
    /\ animation_job' = NoJob
    /\ face' = ClosedImg
    /\ avatar_shown' = FALSE
    /\ lastOp' = "worker"
    /\ UNCHANGED <<clock, selected_mode, next_fire, frame_index, talk_frames, end_img,
                   piper_bin, piper_model, hideTimers, stopQueue, deferred>>

\* _run: speak has returned or raised; the finally clause posts _stop_animation
\* to the main loop and the thread ends
WorkerFinally ==
    /\ \E w \in WorkerIds :
          /\ workers[w].pc = "finally"
          /\ stopQueue' = IF PostsCompletion(workers[w]) THEN stopQueue + 1 ELSE stopQueue
          /\ workers' = [workers EXCEPT ![w] = EndedWorker(workers[w])]
    /\ WorkerFrame

\* ------------------------------------------------------------ specifications
Next ==
    \/ Advance
    \/ OnModeChange
    \/ SpeakNow
    \/ SchedulerTick
    \/ AnimateMouth
    \/ StopAnimation
    \/ HideAvatar
    \/ WorkerSpeak
    \/ WorkerMktemp
    \/ WorkerPiper
    \/ WorkerAfplay
    \/ WorkerSay
    \/ WorkerRemove
    \/ WorkerFinally

Spec == Init /\ [][Next]_vars

\* The main loop runs every callback posted to it, and a thread whose speak call
\* has ended runs its finally clause.  Nothing makes a speech process end.
LiveSpec ==
    /\ Init
    /\ [][Next]_vars
    /\ WF_vars(StopAnimation)
    /\ WF_vars(HideAvatar)
    /\ WF_vars(WorkerFinally)

\* ------------------------------------------------------------ _compute_next_fire alone
\* the instants _compute_next_fire is applied to: every minute of some hours, on and
\* off the second, on and next to the millisecond
FnHours == {9, 10, 14, 15, 23}
FnSeconds == {0, 33, 47, 59}
FnMillis == {0, 1, 999}
FnTimes ==
    { At(0, h, m, sec, ms) :
        h \in FnHours, m \in 0..(MinutesPerHour - 1), sec \in FnSeconds, ms \in FnMillis }

\* __init__ at any of these instants, with piper found and its model path set
InitFn ==
    /\ clock \in FnTimes
    /\ InitConfig
    /\ piper_bin
    /\ piper_model
    /\ InitControl

\* the mode is changed at the instant of __init__: next_fire is
\* _compute_next_fire(now) for the mode selected
SpecFn == InitFn /\ [][OnModeChange]_vars

\* ------------------------------------------------------------ properties
\* the program points of a thread inside SpeechEngine.speak
InSpeak == {"speak", "mktemp", "piper", "afplay", "say", "remove"}

\* the threads inside SpeechEngine.speak
Speaking == {w \in WorkerIds : workers[w].pc \in InSpeak}

\* a step of _scheduler_tick, of speak_now from the menu
TickStep == lastOp' \in {"tick_fire", "tick_skip"}
SpeakNowStep == lastOp' \in {"speak_now", "speak_now_skipped"}

\* the step started a thread
Dispatched == \E w \in WorkerIds : workers[w].pc = "idle" /\ workers'[w].pc = "speak"

\* C1: at most one utterance is in flight: never more than one thread is inside
\* speak(), a thread is inside speak() only while is_speaking is true, and no step
\* taken while is_speaking is true starts a thread.
C1_AtMostOneInFlight ==
    /\ [](Cardinality(Speaking) <= 1 /\ (Speaking # {} => is_speaking))
    /\ [][is_speaking => ~Dispatched]_vars

\* a manual trigger was refused while a thread was inside speak()
C1_Witness == lastOp = "speak_now_skipped" /\ \E w \in WorkerIds : workers[w].pc = "say"

\* C2: the avatar window is shown in every state in which an utterance is in flight.
C2_ShownWhileSpeaking == is_speaking => avatar_shown

\* C3 as stated: a tick that finds the schedule due while speaking dispatches nothing
\* and leaves next_fire unchanged, the schedule stays due until a tick dispatches,
\* and the first tick that runs with is_speaking false after such a tick dispatches.
C3_DeferredNeverLost ==
    [][ /\ (TickStep /\ clock >= next_fire /\ is_speaking)
            => (~Dispatched /\ UNCHANGED <<next_fire, workers, is_speaking>>)
        /\ (deferred = "waiting" /\ ~(TickStep /\ Dispatched)) => clock' >= next_fire'
        /\ (TickStep /\ deferred = "waiting" /\ ~is_speaking) => Dispatched
      ]_vars

\* C3 as amended: the schedule stays due across every step but a mode change and a
\* dispatching tick, and a tick that finds it due with is_speaking false dispatches.
C3_DeferredUnlessModeChange ==
    [][ /\ (TickStep /\ clock >= next_fire /\ is_speaking)
            => (~Dispatched /\ UNCHANGED <<next_fire, workers, is_speaking>>)
        /\ (clock >= next_fire /\ lastOp' # "mode_change" /\ ~(TickStep /\ Dispatched))
            => clock' >= next_fire'
        /\ (TickStep /\ clock >= next_fire /\ ~is_speaking)
            => (Dispatched /\ is_speaking' /\ next_fire' > clock')
      ]_vars

\* a tick dispatched the utterance an earlier tick had deferred
C3_Witness == lastOp = "tick_fire" /\ deferred = "dispatched" /\ is_speaking

\* C4: once the speak call of a thread has ended, by return or by exception, the
\* completion is posted and processed: is_speaking becomes false and the animation
\* timer is cancelled.
C4_CompletionReachesFinish ==
    (\E w \in WorkerIds : workers[w].pc = "finally")
        ~> (~is_speaking /\ animation_job = NoJob /\ animTimers = {})

\* _stop_animation has run for a thread whose speak call raised
C4_Witness ==
    /\ lastOp = "stop_animation"
    /\ ~is_speaking
    /\ \E w \in WorkerIds : workers[w].pc = "idle" /\ workers[w].outcome = "raised"

\* C5: _compute_next_fire(now) is after now, in every mode.
C5_NextFireAfterNow == next_fire > clock

\* ten_minutes was selected with now exactly on a 10-minute boundary
C5_Witness ==
    /\ lastOp = "mode_change"
    /\ selected_mode = "ten_minutes"
    /\ clock = At(0, 10, 0, 0, 0)

\* C6: in mode ten_minutes, _compute_next_fire(now) is the first instant after now
\* with a minute that is a multiple of 10 and zero seconds and sub-seconds.
C6_TenMinuteBoundary ==
    selected_mode = "ten_minutes" =>
        /\ MinuteOf(next_fire) % TenMinutes = 0
        /\ SecondOf(next_fire) = 0
        /\ MilliOf(next_fire) = 0
        /\ next_fire > clock
        /\ next_fire - TenMinutes * MsPerMinute <= clock
        /\ clock = At(0, 10, 0, 0, 0) => next_fire = At(0, 10, 10, 0, 0)
        /\ clock = At(0, 10, 7, 33, 0) => next_fire = At(0, 10, 10, 0, 0)
        /\ clock = At(0, 10, 9, 59, 999) => next_fire = At(0, 10, 10, 0, 0)
        /\ MinuteOf(clock) >= 50 =>
              MinuteOf(next_fire) = 0 /\ next_fire \div MsPerHour = clock \div MsPerHour + 1

\* ten_minutes was selected in the last ten minutes of an hour
C6_Witness ==
    /\ lastOp = "mode_change"
    /\ selected_mode = "ten_minutes"
    /\ clock = At(0, 10, 59, 59, 999)
    /\ next_fire = At(0, 11, 0, 0, 0)

\* C7: in mode hourly, _compute_next_fire(now) is the top of the first hour after
\* now; in mode minute it is the start of the first minute after now.
C7_HourlyAndMinute ==
    /\ selected_mode = "hourly" =>
        /\ MinuteOf(next_fire) = 0 /\ SecondOf(next_fire) = 0 /\ MilliOf(next_fire) = 0
        /\ next_fire > clock
        /\ next_fire - MsPerHour <= clock
        /\ clock = At(0, 14, 45, 0, 0) => next_fire = At(0, 15, 0, 0, 0)
        /\ clock = At(0, 15, 0, 0, 0) => next_fire = At(0, 16, 0, 0, 0)
    /\ selected_mode = "minute" =>
        /\ SecondOf(next_fire) = 0 /\ MilliOf(next_fire) = 0
        /\ next_fire > clock
        /\ next_fire - MsPerMinute <= clock
        /\ clock = At(0, 9, 12, 47, 0) => next_fire = At(0, 9, 13, 0, 0)

\* hourly was selected with now exactly on the hour
C7_Witness ==
    /\ lastOp = "mode_change"
    /\ selected_mode = "hourly"
    /\ clock = At(0, 15, 0, 0, 0)
    /\ next_fire = At(0, 16, 0, 0, 0)

\* C8: after a non-zero exit of the piper process, the thread does not run afplay,
\* and speak ends by a return after _speak_say was called with the same phrase.
C8_FallbackOnNonZeroExit ==
    \A w \in WorkerIds :
        workers[w].rc > 0 =>
            /\ workers[w].pc # "afplay"
            /\ ~workers[w].played
            /\ workers[w].pc \in {"remove", "finally"} =>
                  workers[w].said = workers[w].phrase /\ workers[w].outcome = "returned"

\* C9: once speak has returned or raised, the temporary wav file does not exist.
C9_NoWavAfterSpeak ==
    \A w \in WorkerIds : workers[w].pc \in {"finally", "idle"} => ~workers[w].wav

\* speak has ended by an exception raised after the file was created
C9_Witness ==
    \E w \in WorkerIds :
        workers[w].pc = "finally" /\ workers[w].outcome = "raised" /\ workers[w].played

\* C10: speak_now while is_speaking is true changes nothing: not is_speaking, the
\* frame index, next_fire, the threads, the animation timers, the avatar.
C10_SpeakNowWhileSpeakingIsNoOp ==
    [][(SpeakNowStep /\ is_speaking) =>
          UNCHANGED <<is_speaking, frame_index, next_fire, workers, animation_job,
                      animTimers, avatar_shown, face, stopQueue, hideTimers,
                      selected_mode, clock>>]_vars

\* speak_now returned early in the middle of an animation
C10_Witness == lastOp = "speak_now_skipped" /\ is_speaking /\ frame_index > 1

\* C11: a start takes effect only from Idle: a thread is started only when no
\* utterance is in flight and no end-pose hold (_hide_avatar timer) is pending.
C11_StartOnlyFromIdle == [][Dispatched => (~is_speaking /\ hideTimers = 0)]_vars

\* C12: speak never throws: every thread that has left speak left it by a return.
C12_SpeakAlwaysReturns ==
    \A w \in WorkerIds : workers[w].pc = "finally" => workers[w].outcome = "returned"

\* a step of _on_mode_change
ModeChangeStep == lastOp' = "mode_change"

\* C13: a mode change replaces next_fire by _compute_next_fire(now) for the new mode,
\* whatever next_fire was and whether or not an utterance is in flight, and leaves
\* is_speaking, the frame index, the animation and the threads unchanged.
C13_ModeChangeResetsSchedule ==
    [][ModeChangeStep =>
          /\ next_fire' = ComputeNextFire(selected_mode', clock)
          /\ next_fire' > clock
          /\ UNCHANGED <<is_speaking, frame_index, animation_job, animTimers, face,
                         avatar_shown, workers, stopQueue, hideTimers, clock>>
      ]_vars

\* the mode was changed while an utterance was in flight and a due fire was waiting
C13_Witness ==
    /\ lastOp = "mode_change"
    /\ is_speaking
    /\ deferred = "waiting"
    /\ next_fire > clock
    /\ \E w \in WorkerIds : workers[w].pc \in InSpeak

\* the cadence rule of a mode: zero seconds and sub-seconds, and the minute a
\* multiple of 10 (ten_minutes) or 0 (hourly)
OnCadence(mode_key, t) ==
    /\ SecondOf(t) = 0
    /\ MilliOf(t) = 0
    /\ mode_key = "ten_minutes" => MinuteOf(t) % TenMinutes = 0
    /\ mode_key = "hourly" => MinuteOf(t) = 0

\* C14: in every reachable state next_fire is on the cadence of the selected mode.
C14_NextFireOnCadence == OnCadence(selected_mode, next_fire)

\* hourly was selected and a tick has re-armed the schedule since
C14_Witness ==
    /\ lastOp = "tick_fire"
    /\ selected_mode = "hourly"
    /\ next_fire = At(0, 12, 0, 0, 0)

\* C15: is_speaking goes from true to false only in _stop_animation, run for the
\* completion signal of the utterance in flight: the signal was pending and is
\* consumed, and the thread has posted it and ended.
C15_OnlyFinishEndsSpeaking ==
    [][(is_speaking /\ ~is_speaking') =>
          /\ lastOp' = "stop_animation"
          /\ stopQueue > 0
          /\ stopQueue' = stopQueue - 1
          /\ \A w \in WorkerIds : workers[w].pc = "idle"
      ]_vars

\* _stop_animation ended an episode that ticks, a mode change and a refused
\* trigger had left speaking
C15_Witness ==
    /\ lastOp = "stop_animation"
    /\ ~is_speaking
    /\ frame_index > 1
    /\ deferred = "waiting"
    /\ selected_mode # "ten_minutes"

\* C16: a step of a thread leaves is_speaking, frame_index, animation_job, the
\* animation timers, next_fire, the mode, the image and the avatar unchanged; all it
\* does to the main loop is post one completion signal, in its last step.
C16_WorkerMutatesNothing ==
    [][lastOp' = "worker" =>
          /\ UNCHANGED <<is_speaking, frame_index, animation_job, animTimers, next_fire,
                         selected_mode, face, avatar_shown, hideTimers>>
          /\ \/ UNCHANGED stopQueue
             \/ /\ stopQueue' = stopQueue + 1
                /\ \E w \in WorkerIds : workers[w].pc = "finally" /\ workers'[w].pc = "idle"
          /\ (\E w \in WorkerIds : workers[w].pc = "finally") => stopQueue' = stopQueue + 1
      ]_vars

\* a thread has posted its completion signal and ended; is_speaking is still true
C16_Witness ==
    /\ lastOp = "worker"
    /\ stopQueue = 1
    /\ is_speaking
    /\ \A w \in WorkerIds : workers[w].pc = "idle"

\* C17: _stop_animation from Speaking either shows the end pose and leaves the avatar
\* to a _hide_avatar timer, or shows the closed mouth and hides the avatar at once;
\* whenever no utterance is in flight the avatar gets hidden unless a new utterance
\* starts, and once hidden it stays hidden until a new utterance starts.
C17_FinishHidesAvatar ==
    /\ [][(lastOp' = "stop_animation" /\ is_speaking) =>
             \/ face' = EndImg /\ hideTimers' = hideTimers + 1 /\ UNCHANGED avatar_shown
             \/ face' = ClosedImg /\ ~avatar_shown' /\ UNCHANGED hideTimers
         ]_vars
    /\ (~is_speaking) ~> (~avatar_shown \/ is_speaking)
    /\ [][(~is_speaking /\ ~avatar_shown /\ ~is_speaking') => ~avatar_shown']_vars

\* the end pose was held and the avatar then hidden, with no utterance in flight
C17_Witness ==
    /\ lastOp = "hide_avatar"
    /\ face = EndImg
    /\ ~avatar_shown
    /\ ~is_speaking
    /\ hideTimers = 0

\* C18: a tick that dispatches found the schedule due and re-arms it from the clock
\* read after the dispatch, so next_fire is then after that instant; a tick that
\* finds next_fire not reached dispatches nothing and leaves it alone.
C18_RearmAfterDispatch ==
    [][ /\ (TickStep /\ Dispatched) =>
              /\ clock >= next_fire
              /\ clock' >= clock
              /\ next_fire' = ComputeNextFire(selected_mode, clock')
              /\ next_fire' > clock'
              /\ next_fire' > next_fire
        /\ (TickStep /\ clock < next_fire) => (~Dispatched /\ UNCHANGED next_fire)
      ]_vars

\* after a dispatch by a tick and the end of that utterance, a tick ran before the
\* new next_fire and did not fire
C18_Witness ==
    /\ lastOp = "tick_skip"
    /\ deferred = "dispatched"
    /\ ~is_speaking
    /\ clock < next_fire
    /\ \A w \in WorkerIds : workers[w].pc = "idle"

\* C19: a dispatch shows talk_frames[0]; every later _animate_mouth of the episode
\* runs while is_speaking is true and shows the frame after the one shown, modulo
\* the number of frames; a speaking frame is put up only while is_speaking is true.
C19_FramesCycleInOrder ==
    [][ /\ Dispatched => (face' = TalkImg(0) /\ frame_index' = 1)
        /\ lastOp' = "animate" =>
              /\ is_speaking
              /\ face.kind = "talk"
              /\ face' = TalkImg((face.idx + 1) % talk_frames)
              /\ frame_index' = frame_index + 1
        /\ (face' # face /\ face'.kind = "talk") => is_speaking'
      ]_vars

\* an episode that followed an end pose has gone through all frames and is back at
\* talk_frames[0]
C19_Witness ==
    /\ lastOp = "animate"
    /\ is_speaking
    /\ hideTimers = 1
    /\ frame_index = 4
    /\ face = TalkImg(0)

\* the threads that have not ended
Alive == {w \in WorkerIds : workers[w].pc # "idle"}

\* C20: at most one animation timer is pending, it is the one animation_job names
\* and is_speaking is true while it is pending; while is_speaking is true exactly
\* one thread is alive or one completion signal is pending, and none otherwise, so
\* _stop_animation only ever runs with is_speaking true.
C20_TimersAndSignalsPaired ==
    /\ Cardinality(animTimers) <= 1
    /\ animTimers # {} => (is_speaking /\ animTimers = {animation_job})
    /\ ~is_speaking => animation_job = NoJob
    /\ Cardinality(Alive) + stopQueue = (IF is_speaking THEN 1 ELSE 0)

\* _stop_animation has consumed the only signal and cancelled the only timer
C20_Witness ==
    /\ lastOp = "stop_animation"
    /\ ~is_speaking
    /\ animTimers = {}
    /\ stopQueue = 0
    /\ frame_index > 1
    /\ \E w \in WorkerIds : workers[w].outcome # "none"

=============================================================================
